---- MODULE Spec2Model ----
(***************************************************************************)
(* nngeometry/ispace/l2loss.py: the example-space generator L2Loss.        *)
(*                                                                         *)
(* A model is a sequence of modules; a data loader is (number of examples, *)
(* batch_size); the loss closure together with the model's weights is a    *)
(* pure function giving, for every retained layer and example, the layer's *)
(* input x and output gradient gy (integer vectors).  Hooks live in a      *)
(* registry on the model's layers; a generator keeps the handles it got.   *)
(* One query runs at a time (the code is synchronous); get_matrix and      *)
(* implicit_m_norm are cut at their loop heads.                            *)
(***************************************************************************)
EXTENDS Integers, Sequences, FiniteSets, TLC

MaxN == 3         \* most examples a data loader's sampler holds
MaxLayers == 2    \* most modules of a model
MaxQueries == 2   \* most queries started in one behaviour

VARIABLES
    model,      \* the torch module tree, flattened in model.modules() order
    weights,    \* the model's parameter values, abstracted to one integer
    loader,     \* generator -> [n, bs]: len(dataloader.sampler), batch_size
    gens,       \* generator -> the L2Loss object's attributes
    hooks,      \* every handle ever made, in creation order (the layers' hook dicts)
    call,       \* the frame of the running query (locals and position)
    result,     \* how the last finished call ended
    nq          \* queries started so far

vars == <<model, weights, loader, gens, hooks, call, result, nq>>

-----------------------------------------------------------------------------
(* Small helpers on sequences and integer tensors.                         *)

RECURSIVE SumSeq(_)
SumSeq(s) == IF s = <<>> THEN 0 ELSE Head(s) + SumSeq(Tail(s))

RECURSIVE Prod(_)
Prod(s) == IF s = <<>> THEN 1 ELSE Head(s) * Prod(Tail(s))

Min(a, b) == IF a < b THEN a ELSE b

Dot(u, w) == SumSeq([k \in 1..Len(u) |-> u[k] * w[k]])

\* torch.mm(a, b.t()) for a, b given as sequences of row vectors
MmT(a, b) == [r \in 1..Len(a) |-> [c \in 1..Len(b) |-> Dot(a[r], b[c])]]

Zeros(n) == [r \in 1..n |-> [c \in 1..n |-> 0]]

-----------------------------------------------------------------------------
(* The model: modules and their parameters.                                *)

NoParam == [present |-> FALSE, shape |-> <<>>, grad |-> FALSE]

Tensor(shape, grad) == [present |-> TRUE, shape |-> shape, grad |-> grad]

Mod(cls, weight, bias) == [cls |-> cls, weight |-> weight, bias |-> bias]

\* p.numel()
numel(p) == Prod(p.shape)

\* The modules a generator is queried on: trainable Linear layers in->out =
\* 2->2 with or without bias, a Conv2d layer, and a parameterless ReLU.
QueryModules ==
    { Mod("Linear", Tensor(<<2, 2>>, TRUE), Tensor(<<2>>, TRUE)),
      Mod("Linear", Tensor(<<2, 2>>, TRUE), NoParam),
      Mod("Conv2d", Tensor(<<2, 2, 1, 1>>, TRUE), Tensor(<<2>>, TRUE)),
      Mod("ReLU", NoParam, NoParam) }

\* The modules a generator may be constructed on: any mix of supported and
\* unsupported classes, with and without bias, frozen and trainable.
AnyModules ==
    { Mod("Linear", Tensor(<<2, 2>>, g), NoParam) : g \in BOOLEAN }
    \cup { Mod("Linear", Tensor(<<2, 2>>, g), Tensor(<<2>>, h)) : g, h \in BOOLEAN }
    \cup { Mod("Conv2d", Tensor(<<2, 2, 1, 1>>, g), NoParam) : g \in BOOLEAN }
    \cup { Mod("Conv2d", Tensor(<<2, 2, 1, 1>>, g), Tensor(<<2>>, h)) : g, h \in BOOLEAN }
    \cup { Mod("BatchNorm1d", Tensor(<<2>>, g), Tensor(<<2>>, h)) : g, h \in BOOLEAN }
    \cup { Mod("Cosine1d", Tensor(<<2, 2>>, g), NoParam) : g \in BOOLEAN }
    \cup { Mod("ReLU", NoParam, NoParam) }

ModelsOver(S) == UNION { [1..k -> S] : k \in 1..MaxLayers }

Supported == {"Linear", "Conv2d"}

\* model.parameters(): every module's weight then bias, in modules() order;
\* a parameter is identified by <<module index, name>>.
RECURSIVE parameters(_, _)
parameters(m, k) ==
    IF k > Len(m) THEN <<>>
    ELSE (IF m[k].weight.present THEN << <<k, "weight">> >> ELSE <<>>)
         \o (IF m[k].bias.present THEN << <<k, "bias">> >> ELSE <<>>)
         \o parameters(m, k + 1)

ParamOf(m, id) == IF id[2] = "weight" THEN m[id[1]].weight ELSE m[id[1]].bias

Range(s) == { s[k] : k \in 1..Len(s) }

SelectIdx(s, P(_)) ==
    LET RECURSIVE Sel(_)
        Sel(k) == IF k > Len(s) THEN <<>>
                  ELSE (IF P(s[k]) THEN <<s[k]>> ELSE <<>>) \o Sel(k + 1)
    IN Sel(1)

\* L2Loss._get_individual_modules: the loop over model.modules().
\* acc = [mods, p_pos, sizes_mods, parameters, start]
RECURSIVE CollectModules(_, _, _)
CollectModules(m, k, acc) ==
    IF k > Len(m) THEN acc
    ELSE IF m[k].cls \in Supported
    THEN LET withW == [acc EXCEPT
                 !.mods = Append(@, k),
                 !.p_pos = [l \in DOMAIN @ \cup {k} |-> IF l = k THEN acc.start ELSE @[l]],
                 !.sizes_mods = Append(@, m[k].weight.shape),
                 !.parameters = Append(@, <<k, "weight">>),
                 !.start = @ + numel(m[k].weight)]
             withB == IF m[k].bias.present
                      THEN [withW EXCEPT
                               !.sizes_mods = Append(@, m[k].bias.shape),
                               !.parameters = Append(@, <<k, "bias">>),
                               !.start = @ + numel(m[k].bias)]
                      ELSE withW
         IN CollectModules(m, k + 1, withB)
    ELSE CollectModules(m, k + 1, acc)

\* The two assertions that end _get_individual_modules.
LayoutAsserts(m, acc) ==
    LET all == parameters(m, 1)
        sizes_flat == [k \in 1..Len(SelectIdx(all, LAMBDA id : ParamOf(m, id).grad))
                          |-> ParamOf(m, SelectIdx(all, LAMBDA id : ParamOf(m, id).grad)[k]).shape]
    IN /\ acc.sizes_mods = sizes_flat
       /\ Cardinality(Range(acc.parameters) \ Range(all)) = 0

\* L2Loss._get_individual_modules: [ok, mods, p_pos]; ok = FALSE is the
\* AssertionError.
_get_individual_modules(m) ==
    LET acc == CollectModules(m, 1,
                   [mods |-> <<>>, p_pos |-> [l \in {} |-> 0], sizes_mods |-> <<>>,
                    parameters |-> <<>>, start |-> 0])
    IN [ok |-> LayoutAsserts(m, acc), mods |-> acc.mods, p_pos |-> acc.p_pos]

-----------------------------------------------------------------------------
(* The collaborators: data loader and loss closure.                        *)

Generators == {1, 2}

NumBatches(ld) == (ld.n + ld.bs - 1) \div ld.bs

\* The examples (1-based) of batch k (0-based), as the loader yields them:
\* consecutive, the last batch holding what is left.
Batch(ld, k) == [j \in 1..(Min((k + 1) * ld.bs, ld.n) - k * ld.bs) |-> k * ld.bs + j]

\* Number of examples before batch k
Offset(ld, k) == Min(k * ld.bs, ld.n)

Loaders == { [n |-> n, bs |-> bs] : n \in 0..MaxN, bs \in 1..MaxN }

\* Input of module l and gradient of the loss with respect to its output, for
\* example e, under the parameter values w: what the forward pre-hook and the
\* backward hook of module l are handed for that example.
Act(w, l, e) == <<e + l, w>>
Grad(w, l, e) == <<e * w, 0 - l>>

X(l, batch) == [j \in 1..Len(batch) |-> Act(weights, l, batch[j])]
GY(l, batch) == [j \in 1..Len(batch) |-> Grad(weights, l, batch[j])]

\* v[a:b] of a Python sequence (0-based, clamped)
Slice(v, a, b) == [j \in 1..(Min(b, Len(v)) - Min(a, Len(v))) |-> v[Min(a, Len(v)) + j]]

\* The vectors a caller passes to implicit_m_norm on a loader of n examples:
\* of length n, or (a caller's mistake, nothing checks the length) one short
Vectors(n) ==
    { [j \in 1..n |-> j], [j \in 1..n |-> IF j % 2 = 1 THEN 2 ELSE 0 - 1] }
    \cup (IF n >= 1 THEN { [j \in 1..(n - 1) |-> j + 1] } ELSE {})

-----------------------------------------------------------------------------
(* The L2Loss object.                                                      *)

EmptyDict == [l \in {} |-> <<>>]

Put(d, k, val) == [l \in DOMAIN d \cup {k} |-> IF l = k THEN val ELSE d[l]]

\* L2Loss.__init__ after _get_individual_modules returned r.  attrs holds the
\* names of the attributes that queries create and delete; a deleted or not
\* yet created attribute keeps a fixed placeholder value.
NewGen(r) ==
    [handles |-> <<>>, x_outer |-> EmptyDict, x_inner |-> EmptyDict, xs |-> EmptyDict,
     gy_outer |-> EmptyDict, p_pos |-> r.p_pos, mods |-> r.mods,
     attrs |-> {}, G |-> <<>>, e_outer |-> 0, e_inner |-> 0,
     outerloop_switch |-> FALSE, cTv |-> <<>>, c |-> <<>>]

\* L2Loss.release_buffers (never called by the queries)
release_buffers(self) ==
    [self EXCEPT !.x_outer = EmptyDict, !.x_inner = EmptyDict, !.xs = EmptyDict,
                 !.gy_outer = EmptyDict]

Ok(self) == [g |-> self, exc |-> "none"]
Raise(self, e) == [g |-> self, exc |-> e]

\* G[r0:r0+nr, c0:c0+nc] += block fits when the slice is not clamped (a
\* clamped slice is smaller than the block, and += does not shrink the block)
Fits(G, r0, c0, block) ==
    /\ r0 + Len(block) <= Len(G)
    /\ \A r \in 1..Len(block) : c0 + Len(block[r]) <= Len(G)

AddBlock(G, r0, c0, block) ==
    [r \in 1..Len(G) |-> [c \in 1..Len(G) |->
        IF r - r0 \in 1..Len(block) /\ c - c0 \in 1..Len(block[r - r0])
        THEN G[r][c] + block[r - r0][c - c0] ELSE G[r][c]]]

Hadamard(a, b) == [r \in 1..Len(a) |-> [c \in 1..Len(a[r]) |-> a[r][c] * b[r][c]]]

SameShape(a, b) ==
    /\ Len(a) = Len(b)
    /\ \A r \in 1..Len(a) : Len(a[r]) = Len(b[r])

\* L2Loss._hook_savex_io
_hook_savex_io(self, mod, i) ==
    IF "outerloop_switch" \notin self.attrs THEN Raise(self, "AttributeError")
    ELSE IF self.outerloop_switch
    THEN Ok([self EXCEPT !.x_outer = Put(@, mod, i)])
    ELSE Ok([self EXCEPT !.x_inner = Put(@, mod, i)])

\* L2Loss._hook_savex
_hook_savex(self, mod, i) == Ok([self EXCEPT !.xs = Put(@, mod, i)])

\* The accumulation of _hook_compute_flat_grad for a Linear layer
AccumulateLinear(self, mod, gy_inner) ==
    LET gy_outer == self.gy_outer[mod]
        x_outer == self.x_outer[mod]
        x_inner == self.x_inner[mod]
        xx == MmT(x_inner, x_outer)
        gg == MmT(gy_inner, gy_outer)
    IN IF {"G", "e_inner", "e_outer"} \subseteq self.attrs
       THEN IF SameShape(xx, gg) /\ Fits(self.G, self.e_inner, self.e_outer, xx)
            THEN LET G1 == AddBlock(self.G, self.e_inner, self.e_outer, Hadamard(xx, gg))
                     G2 == IF model[mod].bias.present
                           THEN AddBlock(G1, self.e_inner, self.e_outer, gg)
                           ELSE G1
                 IN Ok([self EXCEPT !.G = G2])
            ELSE Raise(self, "RuntimeError")
       ELSE Raise(self, "AttributeError")

\* _hook_compute_flat_grad with the final raise forgotten: a layer of another
\* class than Linear is skipped in silence.
_hook_compute_flat_grad_skips(self, mod, grad_output) ==
    IF "outerloop_switch" \notin self.attrs THEN Raise(self, "AttributeError")
    ELSE IF self.outerloop_switch
    THEN Ok([self EXCEPT !.gy_outer = Put(@, mod, grad_output)])
    ELSE IF ~ (mod \in DOMAIN self.gy_outer /\ mod \in DOMAIN self.x_outer
                 /\ mod \in DOMAIN self.x_inner)
    THEN Raise(self, "KeyError")
    ELSE IF model[mod].cls = "Linear"
    THEN AccumulateLinear(self, mod, grad_output)
    ELSE Ok(self)

\* L2Loss._hook_compute_flat_grad
_hook_compute_flat_grad(self, mod, grad_output) ==
    IF "outerloop_switch" \notin self.attrs THEN Raise(self, "AttributeError")
    ELSE IF self.outerloop_switch
    THEN Ok([self EXCEPT !.gy_outer = Put(@, mod, grad_output)])
    ELSE IF ~ (mod \in DOMAIN self.gy_outer /\ mod \in DOMAIN self.x_outer
                 /\ mod \in DOMAIN self.x_inner)
    THEN Raise(self, "KeyError")
    ELSE IF model[mod].cls = "Linear"
    THEN AccumulateLinear(self, mod, grad_output)
    ELSE Raise(self, "NotImplementedError")

\* torch.mm(gy.t(), c.view(-1, 1) * xs).view(-1): entry (j, k) of the
\* out x in product at flat index (j - 1) * in + k; c of length 1 broadcasts.
WeightTerm(gy, c, xs) ==
    LET nout == Len(gy[1])
        nin == Len(xs[1])
        cc(e) == IF Len(c) = 1 THEN c[1] ELSE c[e]
    IN [p \in 1..(nout * nin) |->
           SumSeq([e \in 1..Len(xs) |->
               gy[e][((p - 1) \div nin) + 1] * cc(e) * xs[e][((p - 1) % nin) + 1]])]

\* torch.mv(gy.t(), c)
BiasTerm(gy, c) ==
    [j \in 1..Len(gy[1]) |-> SumSeq([e \in 1..Len(gy) |-> gy[e][j] * c[e]])]

\* buf[start:start+len(term)] += term
AddSlice(buf, start, term) ==
    [p \in 1..Len(buf) |-> IF p - start \in 1..Len(term) THEN buf[p] + term[p - start]
                           ELSE buf[p]]

\* L2Loss._hook_compute_m_norm
_hook_compute_m_norm(self, mod, grad_output) ==
    IF mod \notin DOMAIN self.xs THEN Raise(self, "KeyError")
    ELSE IF model[mod].cls = "Linear"
    THEN LET xs == self.xs[mod]
             start == self.p_pos[mod]
             nw == numel(model[mod].weight)
         IN IF ~ ({"_cTv", "_c"} \subseteq self.attrs) THEN Raise(self, "AttributeError")
            ELSE IF ~ (Len(self.c) = Len(xs) \/ Len(self.c) = 1)
            THEN Raise(self, "RuntimeError")
            ELSE LET b1 == AddSlice(self.cTv, start, WeightTerm(grad_output, self.c, xs))
                 IN IF ~ model[mod].bias.present THEN Ok([self EXCEPT !.cTv = b1])
                    ELSE IF Len(self.c) # Len(grad_output)
                    THEN Raise([self EXCEPT !.cTv = b1], "RuntimeError")
                    ELSE Ok([self EXCEPT !.cTv =
                                AddSlice(b1, start + nw, BiasTerm(grad_output, self.c))])
    ELSE Raise(self, "NotImplementedError")

-----------------------------------------------------------------------------
(* Hook registration and dispatch (torch.nn.Module's hook dicts).          *)

NewHandle(g, l, kind, fn) ==
    [gen |-> g, layer |-> l, kind |-> kind, fn |-> fn, live |-> TRUE, removes |-> 0]

\* L2Loss._add_hooks: [hooks, handles] after registering on every retained
\* module a forward pre-hook and a backward hook; a handle is its index in hooks.
RECURSIVE _add_hooks(_, _, _, _, _)
_add_hooks(hk, g, mods, hook_x, hook_gy) ==
    IF mods = <<>> THEN [hooks |-> hk, handles |-> <<>>]
    ELSE LET hk2 == hk \o << NewHandle(g, Head(mods), "forward_pre", hook_x),
                             NewHandle(g, Head(mods), "backward", hook_gy) >>
             rest == _add_hooks(hk2, g, Tail(mods), hook_x, hook_gy)
         IN [hooks |-> rest.hooks,
             handles |-> <<Len(hk) + 1, Len(hk) + 2>> \o rest.handles]

\* for h in self.handles: h.remove()
RemoveHandles(hk, handles) ==
    [id \in 1..Len(hk) |->
        IF id \in Range(handles)
        THEN [hk[id] EXCEPT !.live = FALSE, !.removes = @ + 1]
        ELSE hk[id]]

\* The registered hooks of one kind on module l, in registration order
RECURSIVE HooksOn(_, _, _, _)
HooksOn(hk, l, kind, id) ==
    IF id > Len(hk) THEN <<>>
    ELSE (IF hk[id].live /\ hk[id].layer = l /\ hk[id].kind = kind THEN <<id>> ELSE <<>>)
         \o HooksOn(hk, l, kind, id + 1)

\* Forward runs the modules first to last, backward last to first.
RECURSIVE ForwardOrder(_, _)
ForwardOrder(hk, l) ==
    IF l > Len(model) THEN <<>>
    ELSE HooksOn(hk, l, "forward_pre", 1) \o ForwardOrder(hk, l + 1)

RECURSIVE BackwardOrder(_, _)
BackwardOrder(hk, l) ==
    IF l < 1 THEN <<>>
    ELSE HooksOn(hk, l, "backward", 1) \o BackwardOrder(hk, l - 1)

\* One hook called by torch on the batch being run
Fire(gs, h, batch) ==
    LET self == gs[h.gen]
        r == CASE h.fn = "_hook_savex_io" -> _hook_savex_io(self, h.layer, X(h.layer, batch))
               [] h.fn = "_hook_savex" -> _hook_savex(self, h.layer, X(h.layer, batch))
               [] h.fn = "_hook_compute_flat_grad" ->
                      _hook_compute_flat_grad(self, h.layer, GY(h.layer, batch))
               [] h.fn = "_hook_compute_m_norm" ->
                      _hook_compute_m_norm(self, h.layer, GY(h.layer, batch))
    IN [gens |-> [gs EXCEPT ![h.gen] = r.g], exc |-> r.exc]

RECURSIVE FireAll(_, _, _, _)
FireAll(gs, hk, order, batch) ==
    IF order = <<>> THEN [gens |-> gs, exc |-> "none"]
    ELSE LET r == Fire(gs, hk[Head(order)], batch)
         IN IF r.exc # "none" THEN r ELSE FireAll(r.gens, hk, Tail(order), batch)

\* loss = self.loss_closure(inputs, targets); torch.autograd.grad(loss, [inputs]):
\* every registered hook fires, and the first exception ends the pass.
ForwardBackward(gs, hk, batch) ==
    FireAll(gs, hk, ForwardOrder(hk, 1) \o BackwardOrder(hk, Len(model)), batch)

-----------------------------------------------------------------------------
(* The queries, as steps on the world W = [gens, hooks, call, result].     *)

Idle ==
    [op |-> "idle", gen |-> 0, pc |-> "idle", i_outer |-> 0, i_inner |-> 0,
     inputs |-> 0, bs_outer |-> 0, v |-> <<>>, i |-> 0]

NoResult ==
    [gen |-> 0, op |-> "none", arg |-> <<>>, status |-> "none", value |-> <<>>,
     exc |-> "none"]

\* The call ends: by return (status "returned") or by an exception
Finish(W, status, value, exc) ==
    [W EXCEPT !.call = Idle,
              !.result = [gen |-> W.call.gen, op |-> W.call.op, arg |-> W.call.v,
                          status |-> status, value |-> value, exc |-> exc]]

\* sum([p.numel() for p in self.model.parameters()])
n_parameters ==
    LET ps == parameters(model, 1)
    IN SumSeq([k \in 1..Len(ps) |-> numel(ParamOf(model, ps[k]))])

\* get_matrix, lines 24-31
GetMatrixBeginStep(W, g) ==
    LET self == W.gens[g]
        ah == _add_hooks(W.hooks, g, self.mods, "_hook_savex_io", "_hook_compute_flat_grad")
        self1 == [self EXCEPT !.handles = @ \o ah.handles]
        W1 == [W EXCEPT !.hooks = ah.hooks, !.gens[g] = self1,
                        !.call = [Idle EXCEPT !.op = "get_matrix", !.gen = g, !.pc = "outer"]]
    IN IF parameters(model, 1) = <<>>
       THEN Finish(W1, "raised", <<>>, "StopIteration")
       ELSE [W1 EXCEPT !.gens[g] = [self1 EXCEPT !.G = Zeros(loader[g].n), !.e_outer = 0,
                                                 !.attrs = @ \cup {"G", "e_outer"}]]

\* get_matrix, lines 32-41: the outer batch's pass
OuterPassStep(W) ==
    LET g == W.call.gen
        batch == Batch(loader[g], W.call.i_outer)
        fr == [W.call EXCEPT !.inputs = W.call.i_outer, !.bs_outer = Len(batch)]
        gs1 == [W.gens EXCEPT ![g].outerloop_switch = TRUE,
                              ![g].attrs = @ \cup {"outerloop_switch"}]
        r == ForwardBackward(gs1, W.hooks, batch)
    IN IF r.exc # "none"
       THEN Finish([W EXCEPT !.gens = r.gens, !.call = fr], "raised", <<>>, r.exc)
       ELSE [W EXCEPT !.gens = [r.gens EXCEPT ![g].outerloop_switch = FALSE,
                                              ![g].e_inner = 0,
                                              ![g].attrs = @ \cup {"e_inner"}],
                      !.call = [fr EXCEPT !.pc = "inner", !.i_inner = 0]]

\* get_matrix, lines 42-44: the inner loop yields a batch past the outer one;
\* inputs and targets are already bound to it when the loop breaks
InnerBreakStep(W) ==
    [W EXCEPT !.call = [W.call EXCEPT !.inputs = W.call.i_inner, !.pc = "outer_end"]]

\* get_matrix, line 42: the inner loop finds the loader exhausted
InnerExhaustedStep(W) == [W EXCEPT !.call.pc = "outer_end"]

\* get_matrix, lines 42-48: the inner batch's pass
InnerPassStep(W) ==
    LET g == W.call.gen
        batch == Batch(loader[g], W.call.i_inner)
        fr == [W.call EXCEPT !.inputs = W.call.i_inner]
        r == ForwardBackward(W.gens, W.hooks, batch)
    IN IF r.exc # "none"
       THEN Finish([W EXCEPT !.gens = r.gens, !.call = fr], "raised", <<>>, r.exc)
       ELSE [W EXCEPT !.gens = r.gens, !.call = [fr EXCEPT !.pc = "copy"]]

\* G[r0:r0+nr, c0:c0+nc], clamped as Python slices are
Block(G, r0, nr, c0, nc) ==
    [r \in 1..(Min(r0 + nr, Len(G)) - Min(r0, Len(G))) |->
        [c \in 1..(Min(c0 + nc, Len(G)) - Min(c0, Len(G))) |-> G[r0 + r][c0 + c]]]

\* m.t(), m with nr rows and nc columns
Transpose(m, nr, nc) == [c \in 1..nc |-> [r \in 1..nr |-> m[r][c]]]

\* SymCopyStep with `i_inner <= i_outer` for `i_inner < i_outer` at line 49:
\* the diagonal block is copied onto itself too.
SymCopyStepDiagonalToo(W) ==
    LET g == W.call.gen
        self == W.gens[g]
        bs_outer == W.call.bs_outer
        bs_inner == Len(Batch(loader[g], W.call.inputs))
        src == Block(self.G, self.e_inner, bs_inner, self.e_outer, bs_outer)
        srcT == Transpose(src, Len(src), IF src = <<>> THEN 0 ELSE Len(src[1]))
        dst == Block(self.G, self.e_outer, bs_outer, self.e_inner, bs_inner)
    IN IF ~ SameShape(dst, srcT)
       THEN Finish(W, "raised", <<>>, "RuntimeError")
       ELSE [W EXCEPT !.gens[g] = [self EXCEPT
                                      !.G = AddBlock(self.G, self.e_outer, self.e_inner, srcT),
                                      !.e_inner = @ + bs_inner],
                      !.call = [W.call EXCEPT !.i_inner = @ + 1, !.pc = "inner"]]

\* get_matrix, lines 49-53: the copy by transpose, then e_inner moves on
SymCopyStep(W) ==
    LET g == W.call.gen
        self == W.gens[g]
        bs_outer == W.call.bs_outer
        bs_inner == Len(Batch(loader[g], W.call.inputs))
        src == Block(self.G, self.e_inner, bs_inner, self.e_outer, bs_outer)
        srcT == Transpose(src, Len(src), IF src = <<>> THEN 0 ELSE Len(src[1]))
        dst == Block(self.G, self.e_outer, bs_outer, self.e_inner, bs_inner)
        G1 == IF W.call.i_inner < W.call.i_outer
              THEN AddBlock(self.G, self.e_outer, self.e_inner, srcT)
              ELSE self.G
    IN IF W.call.i_inner < W.call.i_outer /\ ~ SameShape(dst, srcT)
       THEN Finish(W, "raised", <<>>, "RuntimeError")
       ELSE [W EXCEPT !.gens[g] = [self EXCEPT !.G = G1, !.e_inner = @ + bs_inner],
                      !.call = [W.call EXCEPT !.i_inner = @ + 1, !.pc = "inner"]]

\* get_matrix, line 55: e_outer moves on by the size of whatever batch
\* `inputs` is bound to when the inner loop is left
OuterAdvanceStep(W) ==
    LET g == W.call.gen
    IN [W EXCEPT !.gens[g].e_outer = @ + Len(Batch(loader[g], W.call.inputs)),
                 !.call = [W.call EXCEPT !.i_outer = @ + 1, !.pc = "outer"]]

\* get_matrix, lines 56-66
GetMatrixEndStep(W) ==
    LET g == W.call.gen
        self == W.gens[g]
    IN IF "e_inner" \notin self.attrs
       THEN Finish(W, "raised", <<>>, "AttributeError")
       ELSE Finish([W EXCEPT
                       !.gens[g] = [self EXCEPT !.attrs = @ \ {"e_inner", "e_outer", "G"},
                                                !.e_inner = 0, !.e_outer = 0, !.G = <<>>,
                                                !.x_inner = EmptyDict,
                                                !.x_outer = EmptyDict],
                       !.hooks = RemoveHandles(W.hooks, self.handles)],
                   "returned", self.G, "none")

\* implicit_m_norm beginning with `self.handles = ...` for `self.handles += ...`:
\* the handles of earlier calls are forgotten.
ImplicitBeginStepOverwrites(W, g, v) ==
    LET self == W.gens[g]
        ah == _add_hooks(W.hooks, g, self.mods, "_hook_savex", "_hook_compute_m_norm")
        self1 == [self EXCEPT !.handles = ah.handles]
        W1 == [W EXCEPT !.hooks = ah.hooks, !.gens[g] = self1,
                        !.call = [Idle EXCEPT !.op = "implicit_m_norm", !.gen = g,
                                              !.pc = "batches", !.v = v]]
    IN IF parameters(model, 1) = <<>>
       THEN Finish(W1, "raised", <<>>, "StopIteration")
       ELSE [W1 EXCEPT !.gens[g] = [self1 EXCEPT !.cTv = [p \in 1..n_parameters |-> 0],
                                                 !.attrs = @ \cup {"_cTv"}]]

\* implicit_m_norm, lines 70-78
ImplicitBeginStep(W, g, v) ==
    LET self == W.gens[g]
        ah == _add_hooks(W.hooks, g, self.mods, "_hook_savex", "_hook_compute_m_norm")
        self1 == [self EXCEPT !.handles = @ \o ah.handles]
        W1 == [W EXCEPT !.hooks = ah.hooks, !.gens[g] = self1,
                        !.call = [Idle EXCEPT !.op = "implicit_m_norm", !.gen = g,
                                              !.pc = "batches", !.v = v]]
    IN IF parameters(model, 1) = <<>>
       THEN Finish(W1, "raised", <<>>, "StopIteration")
       ELSE [W1 EXCEPT !.gens[g] = [self1 EXCEPT !.cTv = [p \in 1..n_parameters |-> 0],
                                                 !.attrs = @ \cup {"_cTv"}]]

\* implicit_m_norm, lines 79-85: one batch
ImplicitBatchStep(W) ==
    LET g == W.call.gen
        bs == loader[g].bs
        batch == Batch(loader[g], W.call.i_outer)
        fr == [W.call EXCEPT !.i = @ + bs, !.inputs = W.call.i_outer]
        gs1 == [W.gens EXCEPT ![g].c = Slice(W.call.v, W.call.i, W.call.i + bs),
                              ![g].attrs = @ \cup {"_c"}]
        r == ForwardBackward(gs1, W.hooks, batch)
    IN IF r.exc # "none"
       THEN Finish([W EXCEPT !.gens = r.gens, !.call = fr], "raised", <<>>, r.exc)
       ELSE [W EXCEPT !.gens = r.gens, !.call = [fr EXCEPT !.i_outer = @ + 1]]

\* implicit_m_norm, lines 86-94; the returned norm sqrt(r) is given as <<r>>
ImplicitEndStep(W) ==
    LET g == W.call.gen
        self == W.gens[g]
        m_norm == << SumSeq([p \in 1..Len(self.cTv) |-> self.cTv[p] * self.cTv[p]]) >>
    IN Finish([W EXCEPT
                  !.gens[g] = [self EXCEPT !.attrs = @ \ {"_cTv"}, !.cTv = <<>>,
                                           !.xs = EmptyDict],
                  !.hooks = RemoveHandles(W.hooks, self.handles)],
              "returned", m_norm, "none")

-----------------------------------------------------------------------------
(* The state machine.                                                      *)

World == [gens |-> gens, hooks |-> hooks, call |-> call, result |-> result]

Apply(W) ==
    /\ gens' = W.gens
    /\ hooks' = W.hooks
    /\ call' = W.call
    /\ result' = W.result

Running(op, pc) == call.op = op /\ call.pc = pc

Last == NumBatches(loader[call.gen])

\* The models the constructor accepts among those over QueryModules
QueryModels == { m \in ModelsOver(QueryModules) : _get_individual_modules(m).ok }

\* Generators in G, constructed on one model, each with its own data loader
InitWith(G) ==
    /\ model \in QueryModels
    /\ weights \in {1, 2}
    /\ loader \in [G -> Loaders]
    /\ gens = [g \in G |-> NewGen(_get_individual_modules(model))]
    /\ hooks = <<>>
    /\ call = Idle
    /\ result = NoResult
    /\ nq = 0

\* One generator on the model
Init == InitWith({1})

\* Two generators sharing the model
InitShared == InitWith(Generators)

\* Before any generator is constructed, on any model
InitCtor ==
    /\ model \in ModelsOver(AnyModules)
    /\ weights = 1
    /\ loader = [g \in {1} |-> [n |-> 0, bs |-> 1]]
    /\ gens = [g \in {} |-> 0]
    /\ hooks = <<>>
    /\ call = Idle
    /\ result = NoResult
    /\ nq = 0

\* L2Loss.__init__
Construct(g) ==
    /\ call.op = "idle"
    /\ g \notin DOMAIN gens
    /\ LET r == _get_individual_modules(model)
       IN IF r.ok
          THEN /\ gens' = [h \in DOMAIN gens \cup {g} |-> IF h = g THEN NewGen(r) ELSE gens[h]]
               /\ result' = [gen |-> g, op |-> "__init__", arg |-> <<>>,
                             status |-> "returned", value |-> <<>>, exc |-> "none"]
          ELSE /\ gens' = gens
               /\ result' = [gen |-> g, op |-> "__init__", arg |-> <<>>,
                             status |-> "raised", value |-> <<>>,
                             exc |-> "AssertionError"]
    /\ nq' = nq + 1
    /\ nq < MaxQueries
    /\ UNCHANGED <<model, weights, loader, hooks, call>>

GetMatrixBegin(g) ==
    /\ call.op = "idle"
    /\ nq < MaxQueries
    /\ Apply(GetMatrixBeginStep(World, g))
    /\ nq' = nq + 1
    /\ UNCHANGED <<model, weights, loader>>

OuterPass ==
    /\ Running("get_matrix", "outer")
    /\ call.i_outer < Last
    /\ Apply(OuterPassStep(World))
    /\ UNCHANGED <<model, weights, loader, nq>>

InnerBreak ==
    /\ Running("get_matrix", "inner")
    /\ call.i_inner < Last
    /\ call.i_inner > call.i_outer
    /\ Apply(InnerBreakStep(World))
    /\ UNCHANGED <<model, weights, loader, nq>>

InnerExhausted ==
    /\ Running("get_matrix", "inner")
    /\ call.i_inner >= Last
    /\ Apply(InnerExhaustedStep(World))
    /\ UNCHANGED <<model, weights, loader, nq>>

InnerPass ==
    /\ Running("get_matrix", "inner")
    /\ call.i_inner < Last
    /\ call.i_inner <= call.i_outer
    /\ Apply(InnerPassStep(World))
    /\ UNCHANGED <<model, weights, loader, nq>>

SymCopy ==
    /\ Running("get_matrix", "copy")
    /\ Apply(SymCopyStep(World))
    /\ UNCHANGED <<model, weights, loader, nq>>

OuterAdvance ==
    /\ Running("get_matrix", "outer_end")
    /\ Apply(OuterAdvanceStep(World))
    /\ UNCHANGED <<model, weights, loader, nq>>

GetMatrixEnd ==
    /\ Running("get_matrix", "outer")
    /\ call.i_outer >= Last
    /\ Apply(GetMatrixEndStep(World))
    /\ UNCHANGED <<model, weights, loader, nq>>

ImplicitBegin(g, v) ==
    /\ call.op = "idle"
    /\ nq < MaxQueries
    /\ Apply(ImplicitBeginStep(World, g, v))
    /\ nq' = nq + 1
    /\ UNCHANGED <<model, weights, loader>>

ImplicitBatch ==
    /\ Running("implicit_m_norm", "batches")
    /\ call.i_outer < Last
    /\ Apply(ImplicitBatchStep(World))
    /\ UNCHANGED <<model, weights, loader, nq>>

ImplicitEnd ==
    /\ Running("implicit_m_norm", "batches")
    /\ call.i_outer >= Last
    /\ Apply(ImplicitEndStep(World))
    /\ UNCHANGED <<model, weights, loader, nq>>

Next ==
    \/ \E g \in DOMAIN gens : GetMatrixBegin(g)
    \/ OuterPass
    \/ InnerBreak
    \/ InnerExhausted
    \/ InnerPass
    \/ SymCopy
    \/ OuterAdvance
    \/ GetMatrixEnd
    \/ \E g \in DOMAIN gens : \E v \in Vectors(loader[g].n) : ImplicitBegin(g, v)
    \/ ImplicitBatch
    \/ ImplicitEnd

NextCtor == \E g \in {1} : Construct(g)

Spec == Init /\ [][Next]_vars

SpecShared == InitShared /\ [][Next]_vars

SpecCtor == InitCtor /\ [][NextCtor]_vars

-----------------------------------------------------------------------------
(* A whole query, run to its end from a given world.                       *)

\* The step the running query takes next
StepOf(W) ==
    LET last == NumBatches(loader[W.call.gen])
        fr == W.call
    IN CASE fr.op = "get_matrix" /\ fr.pc = "outer" ->
                IF fr.i_outer < last THEN OuterPassStep(W) ELSE GetMatrixEndStep(W)
         [] fr.op = "get_matrix" /\ fr.pc = "inner" ->
                IF fr.i_inner >= last THEN InnerExhaustedStep(W)
                ELSE IF fr.i_inner > fr.i_outer THEN InnerBreakStep(W)
                ELSE InnerPassStep(W)
         [] fr.op = "get_matrix" /\ fr.pc = "copy" -> SymCopyStep(W)
         [] fr.op = "get_matrix" /\ fr.pc = "outer_end" -> OuterAdvanceStep(W)
         [] fr.op = "implicit_m_norm" ->
                IF fr.i_outer < last THEN ImplicitBatchStep(W) ELSE ImplicitEndStep(W)

RECURSIVE RunToEnd(_)
RunToEnd(W) == IF W.call.op = "idle" THEN W ELSE RunToEnd(StepOf(W))

\* L2Loss.get_matrix, whole
get_matrix(W, g) == RunToEnd(GetMatrixBeginStep(W, g)).result

\* L2Loss.implicit_m_norm, whole
implicit_m_norm(W, g, v) == RunToEnd(ImplicitBeginStep(W, g, v)).result

\* A freshly constructed generator with g's data loader, on the model with no
\* hook registered
FreshWorld(g) ==
    [gens |-> [h \in {g} |-> NewGen(_get_individual_modules(model))],
     hooks |-> <<>>, call |-> Idle, result |-> NoResult]

Queries == {"get_matrix", "implicit_m_norm"}

\* A query has just ended
Ended == call.op = "idle" /\ result.op \in Queries

Returned(op) == Ended /\ result.op = op /\ result.status = "returned"

HasConv2d == \E k \in 1..Len(model) : model[k].cls = "Conv2d"

Linears == { k \in 1..Len(model) : model[k].cls = "Linear" }

-----------------------------------------------------------------------------
(* Claims.                                                                 *)

\* C1: the matrix get_matrix returns is symmetric, G[a][b] = G[b][a] for all
\* example indices a, b, whatever the batching and the Linear layers.
C1_Symmetric ==
    Returned("get_matrix") =>
        \A a, b \in 1..Len(result.value) : result.value[a][b] = result.value[b][a]

\* C2: when a query returns normally, no hook registered by that generator,
\* in this call or an earlier one, is still registered on the model.
C2_NoHookLeftOnReturn ==
    (Ended /\ result.status = "returned") =>
        \A id \in 1..Len(hooks) : hooks[id].gen = result.gen => ~ hooks[id].live

\* A second query returned after the first one had raised and left its hooks
\* registered: every handle was removed once, by this call.
C2_Witness ==
    /\ Ended /\ result.status = "returned"
    /\ nq >= 2
    /\ Len(gens[result.gen].handles) >= 4
    /\ \A id \in 1..Len(hooks) : hooks[id].removes = 1 /\ ~ hooks[id].live

\* C3: every registration is paired with exactly one deregistration, also
\* when the query raises: no hook of the generator stays registered after a
\* raised query, and no handle is removed more than once.
C3_PairedAlsoOnError ==
    /\ (Ended /\ result.status = "raised") =>
           \A id \in 1..Len(hooks) : hooks[id].gen = result.gen => ~ hooks[id].live
    /\ \A id \in 1..Len(hooks) : hooks[id].removes <= 1

\* C4: when a query returns, the generator's caches x_outer, x_inner,
\* gy_outer and xs are all empty.
C4_BuffersReleased ==
    (Ended /\ result.status = "returned") =>
        LET self == gens[result.gen]
        IN /\ self.x_outer = EmptyDict
           /\ self.x_inner = EmptyDict
           /\ self.gy_outer = EmptyDict
           /\ self.xs = EmptyDict

\* What the ended call does on a freshly constructed generator
FreshResult ==
    IF result.op = "get_matrix"
    THEN get_matrix(FreshWorld(result.gen), result.gen)
    ELSE implicit_m_norm(FreshWorld(result.gen), result.gen, result.arg)

\* C5: the value a query returns is the value the same call returns on a
\* freshly constructed generator, whatever queries ran before, on this
\* generator or on another one sharing the model, raised ones included.
C5_NoLeakAcrossQueries ==
    (Ended /\ result.status = "returned") =>
        /\ FreshResult.status = "returned"
        /\ result.value = FreshResult.value

\* v^T G v
Quadratic(v, G) ==
    SumSeq([a \in 1..Len(v) |-> SumSeq([b \in 1..Len(v) |-> v[a] * G[a][b] * v[b]])])

\* C6: for v of length N, the square of implicit_m_norm(v) is v^T G v, G
\* being the matrix get_matrix returns on the same generator.
C6_ImplicitAgreesWithDense ==
    (Returned("implicit_m_norm") /\ Len(result.arg) = loader[result.gen].n) =>
        LET dense == get_matrix(World, result.gen)
        IN dense.status = "returned" =>
               result.value[1] = Quadratic(result.arg, dense.value)

\* A module of an unsupported class owns a trainable parameter
UnsupportedTrainable ==
    \E k \in 1..Len(model) :
        /\ model[k].cls \notin Supported
        /\ \/ model[k].weight.present /\ model[k].weight.grad
           \/ model[k].bias.present /\ model[k].bias.grad

\* C7: constructing a generator raises whenever a module of an unsupported
\* class owns a trainable parameter.
C7_ConstructionFailsFast ==
    (result.op = "__init__" /\ UnsupportedTrainable) => result.status = "raised"

Gram(n) ==
    [a \in 1..n |-> [b \in 1..n |->
        SumSeq([k \in 1..Len(model) |->
            IF model[k].cls # "Linear" THEN 0
            ELSE LET gg == Dot(Grad(weights, k, a), Grad(weights, k, b))
                     xx == Dot(Act(weights, k, a), Act(weights, k, b))
                 IN xx * gg + (IF model[k].bias.present THEN gg ELSE 0)])]]

\* C9: get_matrix returns the Gram matrix: G[a][b] is the sum over the
\* Linear layers of (x_a . x_b)(gy_a . gy_b), plus gy_a . gy_b with a bias.
C9_ReturnsGram ==
    Returned("get_matrix") => result.value = Gram(loader[result.gen].n)

\* C10: at every accumulation into G and every copy by transpose, e_outer
\* and e_inner are the numbers of examples before the outer and the inner
\* batch, and the block written lies inside the matrix.
C10_OffsetsTrackBatches ==
    (call.op = "get_matrix" /\ \/ call.pc = "copy"
                               \/ /\ call.pc = "inner"
                                  /\ call.i_inner <= call.i_outer
                                  /\ call.i_inner < Last) =>
        LET self == gens[call.gen]
            ld == loader[call.gen]
        IN /\ self.e_outer = Offset(ld, call.i_outer)
           /\ self.e_inner = Offset(ld, call.i_inner)
           /\ self.e_outer + Len(Batch(ld, call.i_outer)) <= ld.n
           /\ self.e_inner + Len(Batch(ld, call.i_inner)) <= ld.n

\* The copy by transpose of the pair (outer o, inner i) as one step: the block
\* at rows e_outer, columns e_inner grows by the transpose of the block at rows
\* e_inner, columns e_outer
CopyApplied ==
    LET g == call.gen
        self == gens[g]
        bs_inner == Len(Batch(loader[g], call.i_inner))
        src == Block(self.G, self.e_inner, bs_inner, self.e_outer, call.bs_outer)
        srcT == Transpose(src, Len(src), IF src = <<>> THEN 0 ELSE Len(src[1]))
    IN gens'[g].G = AddBlock(self.G, self.e_outer, self.e_inner, srcT)

\* The outer caches of the running generator are left as they are
OuterCachesKept ==
    /\ gens'[call.gen].x_outer = gens[call.gen].x_outer
    /\ gens'[call.gen].gy_outer = gens[call.gen].gy_outer

\* One step of a running get_matrix, as the nested order allows it
C11_Step ==
    LET o == call.i_outer
        i == call.i_inner
        self == gens[call.gen]
        B == Last
        goes == call'.op = "get_matrix"
        same == call'.i_outer = o /\ call'.i_inner = i
        keepsG == gens'[call.gen].G = self.G
    IN /\ (call.op = "idle" /\ goes) =>
              call'.pc = "outer" /\ call'.i_outer = 0 /\ call'.i_inner = 0
       /\ (call.op = "get_matrix" /\ call.pc = "outer") =>
              \* the outer pass of batch o: caches written, G untouched,
              \* then the inner loop starts at 0; after batch B - 1, the end
              /\ goes => /\ o < B /\ call'.pc = "inner"
                         /\ call'.i_outer = o /\ call'.i_inner = 0
                         /\ ~ gens'[call.gen].outerloop_switch
              /\ (~ goes /\ o < B) => result'.status = "raised"
              /\ o < B => keepsG
              /\ (~ goes /\ result'.status = "returned") => o = B
       /\ (call.op = "get_matrix" /\ call.pc = "inner") =>
              \* the inner pass of the pair (o, i), i <= o, under the switch
              \* off; past i = o the inner loop is left
              /\ ~ self.outerloop_switch
              /\ OuterCachesKept
              /\ i <= o + 1
              /\ i <= o => (goes => call'.pc = "copy" /\ same)
              /\ i = o + 1 => goes /\ call'.pc = "outer_end" /\ call'.i_outer = o
                              /\ keepsG
       /\ (call.op = "get_matrix" /\ call.pc = "copy") =>
              \* the copy of the pair (o, i): applied below the diagonal only
              /\ i <= o
              /\ ~ self.outerloop_switch
              /\ OuterCachesKept
              /\ goes => /\ call'.pc = "inner"
                         /\ call'.i_outer = o /\ call'.i_inner = i + 1
                         /\ IF i < o THEN CopyApplied ELSE keepsG
              /\ ~ goes => i < o /\ result'.status = "raised"
       /\ (call.op = "get_matrix" /\ call.pc = "outer_end") =>
              \* the inner loop went through i = o: on to outer batch o + 1
              /\ i = o + 1
              /\ goes /\ call'.pc = "outer"
              /\ call'.i_outer = o + 1
              /\ keepsG /\ OuterCachesKept

\* C11: get_matrix runs the pairs (outer o, inner i) with i <= o, each once,
\* by o and then by i; the inner loop of o goes through i = o before the
\* outer pass of o + 1; G is written only with outerloop_switch off and the
\* outer caches only in the outer pass; the copy by transpose is applied to
\* every pair with i < o and to no pair with i = o.
C11_StrictNestedOrder == [][C11_Step]_vars

\* get_matrix returned after three outer batches: all six pairs were run
C11_Witness ==
    /\ Returned("get_matrix")
    /\ NumBatches(loader[result.gen]) >= 3

\* Flat offset of module l: the parameters of the retained modules before it
FlatOffset(l) ==
    SumSeq([k \in 1..(l - 1) |->
        IF model[k].cls \in Supported
        THEN numel(model[k].weight)
                 + (IF model[k].bias.present THEN numel(model[k].bias) ELSE 0)
        ELSE 0])

\* Entry p (1-based) of the parameter-sized buffer after the examples 1..upto
\* were run with coefficients v: the sum of v[e] times the gradient of
\* example e with respect to parameter p, for the parameters of Linear layers
BufferEntry(v, upto, p) ==
    LET owners == { l \in Linears :
                      p - FlatOffset(l) \in 1..(numel(model[l].weight)
                          + (IF model[l].bias.present THEN numel(model[l].bias) ELSE 0)) }
    IN IF owners = {} THEN 0
       ELSE LET l == CHOOSE l \in owners : TRUE
                q == p - FlatOffset(l)
                nw == numel(model[l].weight)
                nin == model[l].weight.shape[2]
            IN IF q <= nw
               THEN SumSeq([e \in 1..upto |->
                        v[e] * Grad(weights, l, e)[((q - 1) \div nin) + 1]
                             * Act(weights, l, e)[((q - 1) % nin) + 1]])
               ELSE SumSeq([e \in 1..upto |-> v[e] * Grad(weights, l, e)[q - nw]])

Buffer(v, upto) == [p \in 1..n_parameters |-> BufferEntry(v, upto, p)]

\* The slices of the Linear layers lie inside the buffer and do not overlap
SlicesApart ==
    \A l \in Linears :
        LET len(m) == numel(model[m].weight)
                          + (IF model[m].bias.present THEN numel(model[m].bias) ELSE 0)
        IN /\ FlatOffset(l) + len(l) <= n_parameters
           /\ \A m \in Linears : m < l => FlatOffset(m) + len(m) <= FlatOffset(l)

\* C12: implicit_m_norm(v), v of length N, passes once over the data loader;
\* after k batches the coefficients last used are v at the examples of batch
\* k - 1 and the buffer holds one contribution per Linear layer and batch,
\* each in the layer's own slice; the value returned is the norm of the
\* buffer after all batches.
C12_OnePassBuffer ==
    /\ (call.op = "implicit_m_norm" /\ Len(call.v) = loader[call.gen].n) =>
           LET self == gens[call.gen]
               ld == loader[call.gen]
               k == call.i_outer
           IN /\ k <= NumBatches(ld)
              /\ SlicesApart
              /\ self.cTv = Buffer(call.v, Offset(ld, k))
              /\ k >= 1 => self.c = [j \in 1..Len(Batch(ld, k - 1)) |->
                                        call.v[Batch(ld, k - 1)[j]]]
    /\ (Returned("implicit_m_norm") /\ Len(result.arg) = loader[result.gen].n) =>
           LET buf == Buffer(result.arg, loader[result.gen].n)
           IN result.value = << SumSeq([p \in 1..Len(buf) |-> buf[p] * buf[p]]) >>

====
